---- MODULE Spec2Model ----
(***************************************************************************)
(* Model of scripts/ghg_fire_emissions_functions.py and of the calls that  *)
(* scripts/main.py makes to it: the EFFIS filter, the burnt-area           *)
(* aggregator, the biomass and combustion-factor resolvers and the         *)
(* emissions aggregator of the Chiriaco et al. (2013) model.               *)
(*                                                                         *)
(* Floating-point values are modelled as exact rationals (reduced          *)
(* fractions) plus NaN; rounding of IEEE doubles is outside the model.     *)
(* A pandas DataFrame is a record [cols, rows]: cols the set of column     *)
(* labels, rows a sequence of functions from column label to cell.         *)
(***************************************************************************)
EXTENDS Integers, Sequences, FiniteSets, TLC

\* ------------------------------------------------------------------ bounds
\* Largest number of fire events (rows) in the EFFIS table read from disk.
MaxEvents == 2

\* ------------------------------------------------------- float arithmetic
\* A float is [k |-> "num", n, d] (the reduced fraction n/d, d > 0) or NaN.
RECURSIVE GCD(_, _)
GCD(a, b) == IF b = 0 THEN a ELSE GCD(b, a % b)

Abs(x) == IF x < 0 THEN -x ELSE x

Num(n, d) ==
  LET g == GCD(Abs(n), d)
  IN  [k |-> "num", n |-> n \div g, d |-> d \div g]

NaN == [k |-> "nan", n |-> 0, d |-> 1]

IsNaN(x) == x.k = "nan"

FMul(x, y) ==
  IF IsNaN(x) \/ IsNaN(y) THEN NaN
  ELSE LET g1 == GCD(Abs(x.n), y.d)
           g2 == GCD(Abs(y.n), x.d)
       IN  Num((x.n \div g1) * (y.n \div g2), (x.d \div g2) * (y.d \div g1))

FDiv(x, y) ==
  IF IsNaN(x) \/ IsNaN(y) THEN NaN ELSE FMul(x, Num(y.d, y.n))

FAdd(x, y) ==
  IF IsNaN(x) \/ IsNaN(y) THEN NaN
  ELSE LET g == GCD(x.d, y.d)
           l == (x.d \div g) * y.d
       IN  Num(x.n * (l \div x.d) + y.n * (l \div y.d), l)

\* Series.sum() / DataFrame.sum(): NaN entries are skipped (skipna=True).
RECURSIVE SumSkipNa(_)
SumSkipNa(s) ==
  IF s = <<>> THEN Num(0, 1)
  ELSE IF IsNaN(Head(s)) THEN SumSkipNa(Tail(s))
  ELSE FAdd(Head(s), SumSkipNa(Tail(s)))

\* mean(): the sum of the non-NaN values over their count (NaN if there is none).
CountNotNa(s) == Cardinality({i \in DOMAIN s : ~IsNaN(s[i])})

Mean(s) ==
  IF CountNotNa(s) = 0 THEN NaN ELSE FDiv(SumSkipNa(s), Num(CountNotNa(s), 1))

\* ------------------------------------------------------------------ cells
\* A raw cell as read from a file: a number, a missing value, or text that
\* is not a number.  astype(float) maps them to a float or raises.
NumCell(n, d) == Num(n, d)
MissingCell == [k |-> "none", n |-> 0, d |-> 1]
TextCell == [k |-> "text", n |-> 0, d |-> 1]

\* Series.astype(float) is defined on a column iff no cell is non-numeric text.
CanFloat(cell) == cell.k # "text"
AsFloat(cell) == IF cell.k = "num" THEN cell ELSE NaN

\* --------------------------------------------------------------- sequences
Range(s) == {s[i] : i \in DOMAIN s}

RECURSIVE SeqsUpTo(_, _)
SeqsUpTo(S, n) ==
  IF n = 0 THEN {<<>>}
  ELSE LET shorter == SeqsUpTo(S, n - 1)
       IN  shorter \cup {Append(s, x) : s \in {t \in shorter : Len(t) = n - 1}, x \in S}

RECURSIVE SelectRows(_, _, _)
SelectRows(rows, column, value) ==
  IF rows = <<>> THEN <<>>
  ELSE IF Head(rows)[column] = value
       THEN <<Head(rows)>> \o SelectRows(Tail(rows), column, value)
       ELSE SelectRows(Tail(rows), column, value)

\* ------------------------------------------------------------ input tables
\* The forest-type labels passed as forest_types, and the label of the
\* hectare column that get_total_burnt_area derives for each of them.
ForestTypes == {"BROADLEA", "CONIFER"}

AreaCol(type) ==
  CASE type = "BROADLEA" -> "BROADLEA_AREA_HA"
    [] type = "CONIFER" -> "CONIFER_AREA_HA"

\* DataFrame.filter(regex='_AREA_HA'): re.search of '_AREA_HA' in the label.
\* 'AREA_HA' itself has no leading underscore and does not match.
MatchesAreaHa(c) == c \in {AreaCol(t) : t \in ForestTypes}

\* Fire events as stored in the EFFIS shapefile.
EventRows ==
  { [id |-> 1, FIREDATE |-> <<2021, 7, 24>>, PROVINCE |-> "Cosenza",
     AREA_HA |-> NumCell(10, 1), BROADLEA |-> NumCell(50, 1), CONIFER |-> NumCell(20, 1)],
    [id |-> 2, FIREDATE |-> <<2021, 8, 2>>, PROVINCE |-> "Nuoro",
     AREA_HA |-> NumCell(4, 1), BROADLEA |-> NumCell(25, 1), CONIFER |-> MissingCell],
    [id |-> 3, FIREDATE |-> <<2020, 8, 15>>, PROVINCE |-> "Cosenza",
     AREA_HA |-> NumCell(6, 1), BROADLEA |-> TextCell, CONIFER |-> NumCell(50, 1)] }

EffisFiles == SeqsUpTo(EventRows, MaxEvents)

FileCols == {"id", "FIREDATE", "PROVINCE", "AREA_HA", "BROADLEA", "CONIFER"}

\* Keyword filters of get_effis_data, in call order; value <<>> is None.
NoneValue == <<>>

KwargsSet ==
  { << [column |-> "YEAR", value |-> y], [column |-> "PROVINCE", value |-> p] >> :
      y \in {NoneValue, <<2021>>, <<2020>>},
      p \in {NoneValue, <<"Cosenza">>, <<"Nuoro">>} }

\* forest_types argument: lists of distinct labels.
TypeLists == { <<"BROADLEA">>, <<"CONIFER">>, <<"BROADLEA", "CONIFER">> }

\* INFC15 biomass lookup table (Mg/ha per region and forest type).
BiomassTable ==
  << [Region |-> "Italia", BROADLEA |-> NumCell(100, 1), CONIFER |-> NumCell(120, 1)],
     [Region |-> "Calabria", BROADLEA |-> NumCell(80, 1), CONIFER |-> NumCell(90, 1)] >>

\* region argument of get_biomass: None, a listed region, an unlisted one.
RegionArgs == {NoneValue, <<"Calabria">>, <<"Atlantide">>}

\* ---------------------------------------------------------- get_effis_data
\* A function result is [err, val]: err = "" when the call returns val.
Ok(v) == [err |-> "", val |-> v]
Raise(e, v) == [err |-> e, val |-> v]

\* geopandas.read_file + copy, FIREDATE -> YEAR, rename id -> ID.
LoadRow(r) ==
  [c \in ((DOMAIN r \ {"id"}) \cup {"ID", "YEAR"}) |->
     IF c = "ID" THEN r["id"]
     ELSE IF c = "YEAR" THEN r["FIREDATE"][1]
     ELSE r[c]]

LoadTable(f) ==
  [cols |-> (FileCols \ {"id"}) \cup {"ID", "YEAR"},
   rows |-> [i \in DOMAIN f |-> LoadRow(f[i])]]

\* The loop over kwargs.items(): a None value is skipped, any other value
\* narrows the table and raises as soon as the table is empty.
RECURSIVE FilterLoop(_, _)
FilterLoop(t, kwargs) ==
  IF kwargs = <<>> THEN Ok(t)
  ELSE LET kw == Head(kwargs)
       IN  IF kw.value = NoneValue THEN FilterLoop(t, Tail(kwargs))
           ELSE LET narrowed == [t EXCEPT !.rows = SelectRows(t.rows, kw.column, kw.value[1])]
                IN  IF narrowed.rows = <<>>
                    THEN Raise("ValueError:NoDataFound", narrowed)
                    ELSE FilterLoop(narrowed, Tail(kwargs))

\* Mutant: the emptiness check after a filter is left out.
get_effis_data_no_raise(f, kwargs) == Ok(FilterLoop(LoadTable(f), kwargs).val)

get_effis_data(f, kwargs) == FilterLoop(LoadTable(f), kwargs)

\* ---------------------------------------------------- get_total_burnt_area
Column(t, c) == [i \in DOMAIN t.rows |-> t.rows[i][c]]

ColumnCanFloat(t, c) == \A i \in DOMAIN t.rows : CanFloat(t.rows[i][c])

\* Mutant: the hectares are added onto a column the table already has.
WithAreaColumn_accumulate(t, type) ==
  [cols |-> t.cols \cup {AreaCol(type)},
   rows |-> [i \in DOMAIN t.rows |->
               (AreaCol(type) :>
                  LET ha == FMul(FDiv(AsFloat(t.rows[i][type]), Num(100, 1)),
                                 AsFloat(t.rows[i]["AREA_HA"]))
                  IN  IF AreaCol(type) \in t.cols
                      THEN FAdd(t.rows[i][AreaCol(type)], ha)
                      ELSE ha)
               @@ t.rows[i]]]

\* df[type+'_AREA_HA'] = df[type].astype(float) / 100 * df['AREA_HA'].astype(float)
\* assigned into the caller's table (a new or overwritten column).
WithAreaColumn(t, type) ==
  [cols |-> t.cols \cup {AreaCol(type)},
   rows |-> [i \in DOMAIN t.rows |->
               (AreaCol(type) :>
                  FMul(FDiv(AsFloat(t.rows[i][type]), Num(100, 1)),
                       AsFloat(t.rows[i]["AREA_HA"])))
               @@ t.rows[i]]]

\* The loop over forest_types; an exception leaves the columns added so far.
RECURSIVE AreaLoop(_, _)
AreaLoop(t, types) ==
  IF types = <<>> THEN Ok(t)
  ELSE LET type == Head(types)
       IN  IF type \notin t.cols \/ "AREA_HA" \notin t.cols THEN Raise("KeyError", t)
           ELSE IF ~(ColumnCanFloat(t, type) /\ ColumnCanFloat(t, "AREA_HA"))
                THEN Raise("ValueError:astype", t)
           ELSE AreaLoop(WithAreaColumn(t, type), Tail(types))

\* df.filter(regex='_AREA_HA').astype(float).sum(axis=0)
SumAreas(t) ==
  [c \in {x \in t.cols : MatchesAreaHa(x)} |-> SumSkipNa(Column(t, c))]

\* Returns [err, df, val]: df is the caller's table after the call.
get_total_burnt_area(t, forest_types) ==
  LET looped == AreaLoop(t, forest_types)
  IN  [err |-> looped.err, df |-> looped.val,
       val |-> IF looped.err = "" THEN SumAreas(looped.val) ELSE << >>]

\* ------------------------------------------------------------- get_biomass
get_biomass(table, region) ==
  IF region # NoneValue
  THEN Ok(SelectRows(table, "Region", region[1]))
  ELSE Ok(SelectRows(table, "Region", "Italia"))

\* --------------------------------------------------- get_combustion_factor
Bands == {"<1", "1-2.5", "2.5-3.5", "3.5-4.5", ">4.5"}

CrosswalkRow(name, class, effis) ==
  [BOVIO_NAME |-> name, BOVIO_CLASS |-> class, EFFIS_CLASS |-> effis]

\* A row of the scorch-height table; band values are given in hundredths.
DamageRow(class, b1, b2, b3, b4, b5) ==
  ("BOVIO_CLASS" :> class) @@ ("<1" :> Num(b1, 100)) @@ ("1-2.5" :> Num(b2, 100))
  @@ ("2.5-3.5" :> Num(b3, 100)) @@ ("3.5-4.5" :> Num(b4, 100)) @@ (">4.5" :> Num(b5, 100))

\* Pairs (crosswalk table, fire-damage table) the two paths may name: one
\* whose BOVIO_CLASS keys overlap and one whose keys are disjoint.
CFTables ==
  { [crosswalk |-> { CrosswalkRow("Faggete", 1, "BROADLEA"),
                     CrosswalkRow("Querceti", 2, "BROADLEA"),
                     CrosswalkRow("Castagneti", 4, "BROADLEA"),
                     CrosswalkRow("Pinete", 3, "CONIFER") },
     damage |-> { DamageRow(1, 10, 20, 40, 60, 70),
                  DamageRow(2, 20, 30, 50, 70, 90),
                  DamageRow(4, 10, 20, 40, 60, 70),
                  DamageRow(3, 30, 45, 62, 85, 95),
                  DamageRow(9, 5, 5, 5, 5, 5) }],
    [crosswalk |-> { CrosswalkRow("Faggete", 1, "BROADLEA"),
                     CrosswalkRow("Pinete", 3, "CONIFER") },
     damage |-> { DamageRow(7, 10, 20, 40, 60, 80),
                  DamageRow(8, 30, 45, 62, 85, 95) }] }

\* scorch_height argument: None or a height in metres.
ScorchHeights ==
  { NoneValue, <<Num(0, 1)>>, <<Num(1, 2)>>, <<Num(1, 1)>>, <<Num(2, 1)>>,
    <<Num(5, 2)>>, <<Num(3, 1)>>, <<Num(7, 2)>>, <<Num(4, 1)>>, <<Num(9, 2)>>,
    <<Num(15, 1)>> }

FLt(x, y) == x.n * y.d < y.n * x.d
FLe(x, y) == x.n * y.d <= y.n * x.d

RECURSIVE SetToSeq(_)
SetToSeq(S) ==
  IF S = {} THEN <<>>
  ELSE LET x == CHOOSE y \in S : TRUE IN <<x>> \o SetToSeq(S \ {x})

\* pd.merge(..., on="BOVIO_CLASS") (inner join), drop of the two BOVIO
\* columns and drop_duplicates(): the set of distinct (EFFIS_CLASS, bands) rows.
Merged(crosswalk, damage) ==
  { ("EFFIS_CLASS" :> x.EFFIS_CLASS) @@ [b \in Bands |-> y[b]] :
      <<x, y>> \in {p \in crosswalk \X damage : p[1].BOVIO_CLASS = p[2]["BOVIO_CLASS"]} }

\* groupby(['EFFIS_CLASS']).mean(): per class, the mean of each band column.
Grouped(crosswalk, damage) ==
  LET merged == Merged(crosswalk, damage)
      classes == {r["EFFIS_CLASS"] : r \in merged}
  IN  [c \in classes |->
        [b \in Bands |->
           LET rows == SetToSeq({r \in merged : r["EFFIS_CLASS"] = c})
           IN  Mean([i \in DOMAIN rows |-> rows[i][b]]) ] ]

\* Mutant: the upper bound of each band is taken as inclusive.
CombustionFactorOf_inclusive(g, scorch_height) ==
  IF scorch_height = NoneValue
  THEN Mean(<<g["3.5-4.5"], g[">4.5"]>>)
  ELSE LET h == scorch_height[1]
       IN  IF FLe(h, Num(1, 1)) THEN g["<1"]
           ELSE IF FLe(h, Num(5, 2)) THEN g["1-2.5"]
           ELSE IF FLe(h, Num(7, 2)) THEN g["2.5-3.5"]
           ELSE IF FLe(h, Num(9, 2)) THEN g["3.5-4.5"]
           ELSE g[">4.5"]

\* The if / elif chain on scorch_height selecting one band column.
CombustionFactorOf(g, scorch_height) ==
  IF scorch_height = NoneValue
  THEN Mean(<<g["3.5-4.5"], g[">4.5"]>>)
  ELSE LET h == scorch_height[1]
       IN  IF FLt(h, Num(1, 1)) THEN g["<1"]
           ELSE IF FLe(Num(1, 1), h) /\ FLt(h, Num(5, 2)) THEN g["1-2.5"]
           ELSE IF FLe(Num(5, 2), h) /\ FLt(h, Num(7, 2)) THEN g["2.5-3.5"]
           ELSE IF FLe(Num(7, 2), h) /\ FLt(h, Num(9, 2)) THEN g["3.5-4.5"]
           ELSE g[">4.5"]

\* Returns the one-row table EFFIS_CLASS -> COMBUSTION_FACTOR (row label 0).
get_combustion_factor(crosswalk, damage, scorch_height) ==
  LET grouped == Grouped(crosswalk, damage)
  IN  Ok([c \in DOMAIN grouped |-> CombustionFactorOf(grouped[c], scorch_height)])

\* ------------------------------------------ get_total_annual_GHG_emissions
\* GHG_EMISSION_FACTORS.csv: columns are gas species, one row of factors.
EFRow(co2, ch4, n2o) == [CO2 |-> co2, CH4 |-> ch4, N2O |-> n2o]

EFTables ==
  { << EFRow(Num(1500, 1), Num(5, 1), Num(1, 2)) >>,
    << EFRow(Num(1400, 1), Num(47, 10), Num(26, 100))
         @@ [CO |-> Num(107, 1), NOx |-> Num(3, 1)] >>,
    << EFRow(Num(1500, 1), Num(5, 1), Num(1, 2)),
       EFRow(Num(1600, 1), Num(6, 1), Num(1, 4)) >> }

BiomassCols == {"Region", "BROADLEA", "CONIFER"}

Gases(ef) == IF ef = <<>> THEN {} ELSE DOMAIN ef[1]

\* A[type+"_AREA_HA"] * B[type].astype(float) * 1000, then * C[type][0]
Combusted(A_, B_, C_, type) ==
  FMul(FMul(FMul(A_[AreaCol(type)], AsFloat(B_[1][type])), Num(1000, 1)), C_[type])

\* Mutant: the N2O row is scaled by the CH4 potential.
GhgKton_n2o_as_ch4(A_, B_, C_, ef, gas, type) ==
  LET kton == FMul(FMul(ef[1][gas], Combusted(A_, B_, C_, type)), Num(1, 1000000))
  IN  IF gas \in {"CH4", "N2O"} THEN FMul(kton, Num(28, 1)) ELSE kton

\* np.multiply.outer + reshape: cell (gas, type) = factor * combusted mass,
\* then * 1e-6, then the CH4 row * 28 and the N2O row * 273.
GhgKton(A_, B_, C_, ef, gas, type) ==
  LET kton == FMul(FMul(ef[1][gas], Combusted(A_, B_, C_, type)), Num(1, 1000000))
  IN  IF gas = "CH4" THEN FMul(kton, Num(28, 1))
      ELSE IF gas = "N2O" THEN FMul(kton, Num(273, 1))
      ELSE kton

\* df_ghg_kton.loc[['CO2', 'CH4', 'N2O'], :].sum()
emissions_by_forest_type_co2eq(A_, B_, C_, ef, forest_types) ==
  [t \in Range(forest_types) |->
     SumSkipNa(<< GhgKton(A_, B_, C_, ef, "CO2", t),
                  GhgKton(A_, B_, C_, ef, "CH4", t),
                  GhgKton(A_, B_, C_, ef, "N2O", t) >>)]

total_emissions_co2eq(A_, B_, C_, ef, forest_types) ==
  LET by_type == emissions_by_forest_type_co2eq(A_, B_, C_, ef, forest_types)
      ts == SetToSeq(DOMAIN by_type)
  IN  SumSkipNa([i \in DOMAIN ts |-> by_type[ts[i]]])

\* The first loop over forest_types: a missing label is a KeyError, a
\* biomass cell that is not a number makes astype(float) raise.
RECURSIVE FirstLoopErr(_, _, _)
FirstLoopErr(A_, B_, types) ==
  IF types = <<>> THEN ""
  ELSE IF AreaCol(Head(types)) \notin DOMAIN A_ \/ Head(types) \notin BiomassCols
       THEN "KeyError"
  ELSE IF \E i \in DOMAIN B_ : ~CanFloat(B_[i][Head(types)])
       THEN "ValueError:astype"
  ELSE FirstLoopErr(A_, B_, Tail(types))

\* The tuple of values the return statement hands back: the total alone.
\* reshape(gases, types) needs one biomass row and one emission-factor row.
get_total_annual_GHG_emissions(A_, B_, C_, ef, forest_types) ==
  IF FirstLoopErr(A_, B_, forest_types) # ""
  THEN Raise(FirstLoopErr(A_, B_, forest_types), <<>>)
  ELSE IF \E i \in DOMAIN forest_types : forest_types[i] \notin DOMAIN C_
  THEN Raise("KeyError", <<>>)
  ELSE IF Len(ef) * Len(B_) # 1
  THEN Raise("ValueError:reshape", <<>>)
  ELSE IF ~({"CO2", "CH4", "N2O"} \subseteq Gases(ef))
  THEN Raise("KeyError", <<>>)
  ELSE Ok(<< total_emissions_co2eq(A_, B_, C_, ef, forest_types) >>)

\* ------------------------------------------------------------------- state
VARIABLES
  file,    \* the EFFIS shapefile on disk
  df,      \* the caller's event table (burnt_shape), once loaded
  A,       \* result of get_total_burnt_area
  B,       \* result of get_biomass
  C,       \* result of get_combustion_factor
  ret,     \* the values returned by get_total_annual_GHG_emissions
  pc,      \* the pipeline step of main.py to run next
  err,     \* the exception that ended the run, "" if none
  args,    \* the function last called and its arguments
  inputs,  \* the arguments of a pipeline that is run twice
  first,   \* the outcome of the first of the two runs
  run      \* "first", or how the second run got its table: "fresh" / "same"

vars == <<file, df, A, B, C, ret, pc, err, args, inputs, first, run>>

NoTable == [cols |-> {}, rows |-> <<>>]
NoInputs == [kwargs |-> <<>>]
NoOutcome == [err |-> "", A |-> <<>>, B |-> <<>>, C |-> <<>>, ret |-> <<>>]

\* STEP 1a: burnt_shape = get_effis_data(effis_table, **kwargs)
EffisStep(kwargs) ==
  /\ pc = "effis"
  /\ LET r == get_effis_data(file, kwargs)
     IN  IF r.err = ""
         THEN df' = r.val /\ pc' = "area" /\ err' = ""
         ELSE df' = df /\ pc' = "aborted" /\ err' = r.err
  /\ args' = [fn |-> "get_effis_data", kwargs |-> kwargs]
  /\ UNCHANGED <<file, A, B, C, ret, inputs, first, run>>

\* STEP 1b: A = get_total_burnt_area(burnt_shape, forest_types)
AreaStep(forest_types) ==
  /\ pc = "area"
  /\ LET r == get_total_burnt_area(df, forest_types)
     IN  /\ df' = r.df
         /\ IF r.err = ""
            THEN A' = r.val /\ pc' = "biomass" /\ err' = ""
            ELSE A' = A /\ pc' = "aborted" /\ err' = r.err
  /\ args' = [fn |-> "get_total_burnt_area", forest_types |-> forest_types]
  /\ UNCHANGED <<file, B, C, ret, inputs, first, run>>

\* STEP 2: B = get_biomass(biomass_table, region)
BiomassStep(region) ==
  /\ pc = "biomass"
  /\ LET r == get_biomass(BiomassTable, region)
     IN  IF r.err = ""
         THEN B' = r.val /\ pc' = "cf" /\ err' = ""
         ELSE B' = B /\ pc' = "aborted" /\ err' = r.err
  /\ args' = [fn |-> "get_biomass", region |-> region]
  /\ UNCHANGED <<file, df, A, C, ret, inputs, first, run>>

\* STEP 3: C = get_combustion_factor(crosswalk, damage, scorch_height)
CombustionStep(tables, scorch_height) ==
  /\ pc = "cf"
  /\ LET r == get_combustion_factor(tables.crosswalk, tables.damage, scorch_height)
     IN  IF r.err = ""
         THEN C' = r.val /\ pc' = "ghg" /\ err' = ""
         ELSE C' = C /\ pc' = "aborted" /\ err' = r.err
  /\ args' = [fn |-> "get_combustion_factor", tables |-> tables,
              scorch_height |-> scorch_height]
  /\ UNCHANGED <<file, df, A, B, ret, inputs, first, run>>

\* STEP 4: the call get_total_annual_GHG_emissions(A, B, C, table, forest_types)
EmissionsStep(ef, forest_types) ==
  /\ pc = "ghg"
  /\ LET r == get_total_annual_GHG_emissions(A, B, C, ef, forest_types)
     IN  IF r.err = ""
         THEN ret' = r.val /\ pc' = "unpack" /\ err' = ""
         ELSE ret' = ret /\ pc' = "aborted" /\ err' = r.err
  /\ args' = [fn |-> "get_total_annual_GHG_emissions", ef |-> ef,
              forest_types |-> forest_types]
  /\ UNCHANGED <<file, df, A, B, C, inputs, first, run>>

\* STEP 4, the assignment: ghg, emissions_by_forest_type_co2eq = <returned value>
\* Unpacking needs an iterable of exactly two values; a lone float is not one.
UnpackStep ==
  /\ pc = "unpack"
  /\ IF Len(ret) = 2
     THEN pc' = "done" /\ err' = ""
     ELSE pc' = "aborted" /\ err' = "TypeError"
  /\ args' = [fn |-> "unpack"]
  /\ UNCHANGED <<file, df, A, B, C, ret, inputs, first, run>>

\* The script is run again: every table is read afresh from disk.
RerunFresh ==
  /\ pc \in {"done", "aborted"}
  /\ pc' = "effis"
  /\ df' = NoTable /\ A' = <<>> /\ B' = <<>> /\ C' = <<>> /\ ret' = <<>>
  /\ err' = "" /\ args' = [fn |-> "none"]
  /\ UNCHANGED <<file, inputs, first, run>>

\* The pipeline is called again on the event table already in memory.
RerunSameTable ==
  /\ pc \in {"done", "aborted"}
  /\ df # NoTable
  /\ pc' = "area"
  /\ A' = <<>> /\ B' = <<>> /\ C' = <<>> /\ ret' = <<>>
  /\ err' = "" /\ args' = [fn |-> "none"]
  /\ UNCHANGED <<file, df, inputs, first, run>>

Init ==
  /\ file \in EffisFiles
  /\ df = NoTable /\ A = <<>> /\ B = <<>> /\ C = <<>> /\ ret = <<>>
  /\ pc = "effis" /\ err = "" /\ args = [fn |-> "none"]
  /\ inputs = NoInputs /\ first = NoOutcome /\ run = "first"

Next ==
  \/ \E kwargs \in KwargsSet : EffisStep(kwargs)
  \/ \E forest_types \in TypeLists : AreaStep(forest_types)
  \/ \E region \in RegionArgs : BiomassStep(region)
  \/ \E tables \in CFTables, h \in ScorchHeights : CombustionStep(tables, h)
  \/ \E ef \in EFTables, forest_types \in TypeLists : EmissionsStep(ef, forest_types)
  \/ UnpackStep
  \/ RerunFresh
  \/ RerunSameTable

Spec == Init /\ [][Next]_vars

\* ------------------------------------------- the pipeline run twice over
\* The five calls of one run, all with the arguments fixed in `inputs`; the
\* run ends when get_total_annual_GHG_emissions returns or a call raises.
PipelineInputs ==
  [ kwargs : { << [column |-> "YEAR", value |-> y], [column |-> "PROVINCE", value |-> p] >> :
                 <<y, p>> \in { <<NoneValue, NoneValue>>, << <<2021>>, NoneValue >>,
                                << <<2020>>, <<"Nuoro">> >> } },
    forest_types : TypeLists,
    region : RegionArgs,
    tables : CFTables,
    scorch_height : {NoneValue, <<Num(5, 2)>>},
    ef : {e \in EFTables : Len(e) = 1} ]

RunEnded == pc \in {"unpack", "aborted"}

Outcome == [err |-> err, A |-> A, B |-> B, C |-> C, ret |-> ret]

SecondRunFresh ==
  /\ run = "first" /\ RunEnded
  /\ first' = Outcome /\ run' = "fresh"
  /\ pc' = "effis"
  /\ df' = NoTable /\ A' = <<>> /\ B' = <<>> /\ C' = <<>> /\ ret' = <<>>
  /\ err' = "" /\ args' = [fn |-> "none"]
  /\ UNCHANGED <<file, inputs>>

SecondRunSameTable ==
  /\ run = "first" /\ RunEnded
  /\ df # NoTable
  /\ first' = Outcome /\ run' = "same"
  /\ pc' = "area"
  /\ A' = <<>> /\ B' = <<>> /\ C' = <<>> /\ ret' = <<>>
  /\ err' = "" /\ args' = [fn |-> "none"]
  /\ UNCHANGED <<file, df, inputs>>

InitTwice ==
  /\ file \in EffisFiles
  /\ inputs \in PipelineInputs
  /\ df = NoTable /\ A = <<>> /\ B = <<>> /\ C = <<>> /\ ret = <<>>
  /\ pc = "effis" /\ err = "" /\ args = [fn |-> "none"]
  /\ first = NoOutcome /\ run = "first"

NextTwice ==
  \/ EffisStep(inputs.kwargs)
  \/ AreaStep(inputs.forest_types)
  \/ BiomassStep(inputs.region)
  \/ CombustionStep(inputs.tables, inputs.scorch_height)
  \/ EmissionsStep(inputs.ef, inputs.forest_types)
  \/ SecondRunFresh
  \/ SecondRunSameTable

SpecTwice == InitTwice /\ [][NextTwice]_vars

\* ================================================================== claims

\* 100-year global-warming potentials named by the specification.
GWP(gas) ==
  CASE gas = "CO2" -> 1
    [] gas = "CH4" -> 28
    [] gas = "N2O" -> 273

\* A[t] * B[t] * 1000 * C[t] * EF[g] * 1e-6 * GWP[g] for one type and gas.
Term(A_, B_, C_, ef, t, g) ==
  FMul(FMul(A_[AreaCol(t)], AsFloat(B_[1][t])),
       FMul(C_[t], FMul(FMul(ef[1][g], Num(GWP(g), 1)), Num(1000, 1000000))))

TypeTotal(A_, B_, C_, ef, t) ==
  FAdd(Term(A_, B_, C_, ef, t, "CO2"),
       FAdd(Term(A_, B_, C_, ef, t, "CH4"), Term(A_, B_, C_, ef, t, "N2O")))

RECURSIVE SumOverTypes(_, _, _, _, _)
SumOverTypes(A_, B_, C_, ef, T) ==
  IF T = {} THEN Num(0, 1)
  ELSE LET t == CHOOSE x \in T : TRUE
       IN  FAdd(TypeTotal(A_, B_, C_, ef, t), SumOverTypes(A_, B_, C_, ef, T \ {t}))

\* The sum formula of C1: whenever get_total_annual_GHG_emissions returns,
\* the total equals the sum over the forest types t and the gases g in {CO2, CH4, N2O} of
\* A[t] * B[t] * 1000 * C[t] * EF[g] * 1e-6 * GWP[g]; other gases add nothing.
C1_TotalIsGwpWeightedSum ==
  pc = "unpack" =>
    ret[1] = SumOverTypes(A, B, C, args.ef, Range(args.forest_types))

\* The worked example: one forest type with 5 ha burnt, 100 Mg/ha,
\* C = 0.8 and emission factors 1500 / 5 / 0.5.
WorkedExample ==
  /\ pc = "unpack"
  /\ Range(args.forest_types) = {"BROADLEA"}
  /\ A["BROADLEA_AREA_HA"] = Num(5, 1)
  /\ AsFloat(B[1]["BROADLEA"]) = Num(100, 1)
  /\ C["BROADLEA"] = Num(8, 10)
  /\ args.ef[1] = EFRow(Num(1500, 1), Num(5, 1), Num(1, 2))

\* C1 as stated: the sum formula, and the worked example giving
\* 600 + 0.56 + 0.0546 = 600.6146.
C1_Original ==
  /\ C1_TotalIsGwpWeightedSum
  /\ WorkedExample => ret[1] = Num(6006146, 10000)

\* C1 amended: the sum formula, and the worked example giving
\* 600 + 56 + 54.6 = 710.6.
C1_Amended ==
  /\ C1_TotalIsGwpWeightedSum
  /\ WorkedExample => ret[1] = FAdd(Num(600, 1), FAdd(Num(56, 1), Num(546, 10)))

\* C1 witness: the worked example has been computed.
C1_Witness ==
  /\ WorkedExample
  /\ ret = << Num(7106, 10) >>

\* A total over two forest types from a table that also lists the
\* precursor gases CO and NOx is reached as well.
C1_PrecursorTableReached ==
  /\ pc = "unpack"
  /\ Range(args.forest_types) = {"BROADLEA", "CONIFER"}
  /\ {"CO", "NOx"} \subseteq DOMAIN args.ef[1]
  /\ ret[1].n > 0

\* Percentage / 100 * AREA_HA summed over the events of a table.
RECURSIVE ExpectedArea(_, _)
ExpectedArea(rows, type) ==
  IF rows = <<>> THEN Num(0, 1)
  ELSE FAdd(FMul(Num(Head(rows)[type].n, Head(rows)[type].d * 100), Head(rows)["AREA_HA"]),
            ExpectedArea(Tail(rows), type))

NonNegativeNumbers(t, types) ==
  \A i \in DOMAIN t.rows : \A c \in Range(types) \cup {"AREA_HA"} :
    t.rows[i][c].k = "num" /\ t.rows[i][c].n >= 0

\* C2: a call of get_total_burnt_area on a table of non-negative numbers
\* returns, for each forest type of the call, the sum over the events of
\* percentage / 100 * AREA_HA, and has an entry for these types only.
C2_BurntAreaPerType ==
  [][ (pc = "area" /\ pc' = "biomass" /\ NonNegativeNumbers(df, args'.forest_types)) =>
        /\ DOMAIN A' = {AreaCol(t) : t \in Range(args'.forest_types)}
        /\ \A t \in Range(args'.forest_types) :
             A'[AreaCol(t)] = ExpectedArea(df.rows, t) ]_vars

\* The same statement for a table that no earlier call has extended (it has
\* no '_AREA_HA' column yet): there the output is exactly the per-type sums.
BurntAreaPerTypeOnFreshTable ==
  [][ (pc = "area" /\ pc' = "biomass" /\ NonNegativeNumbers(df, args'.forest_types)
         /\ \A c \in df.cols : ~MatchesAreaHa(c)) =>
        /\ DOMAIN A' = {AreaCol(t) : t \in Range(args'.forest_types)}
        /\ \A t \in Range(args'.forest_types) :
             A'[AreaCol(t)] = ExpectedArea(df.rows, t) ]_vars

\* The half-open interval [lower, upper) of each scorch-height band.
BandLower(b) ==
  CASE b = "<1" -> Num(0, 1)
    [] b = "1-2.5" -> Num(1, 1)
    [] b = "2.5-3.5" -> Num(5, 2)
    [] b = "3.5-4.5" -> Num(7, 2)
    [] b = ">4.5" -> Num(9, 2)

HasUpper(b) == b # ">4.5"

BandUpper(b) ==
  CASE b = "<1" -> Num(1, 1)
    [] b = "1-2.5" -> Num(5, 2)
    [] b = "2.5-3.5" -> Num(7, 2)
    [] b = "3.5-4.5" -> Num(9, 2)

InBand(h, b) == FLe(BandLower(b), h) /\ (HasUpper(b) => FLt(h, BandUpper(b)))

\* C3: after get_combustion_factor, every forest type of the joined table
\* has a factor that is the mean of the '3.5-4.5' and '>4.5' values when no
\* scorch height is given, and otherwise the value of the one band whose
\* half-open interval holds the height (a boundary starts its band).
C3_BandSelection ==
  args.fn = "get_combustion_factor" =>
    LET g == Grouped(args.tables.crosswalk, args.tables.damage)
        h == args.scorch_height
    IN  /\ DOMAIN C = DOMAIN g
        /\ \A t \in DOMAIN g :
             IF h = NoneValue
             THEN C[t] = FMul(FAdd(g[t]["3.5-4.5"], g[t][">4.5"]), Num(1, 2))
             ELSE FLe(Num(0, 1), h[1]) =>
                    \E b \in Bands :
                      /\ InBand(h[1], b)
                      /\ \A b2 \in Bands : InBand(h[1], b2) => b2 = b
                      /\ C[t] = g[t][b]

\* C3 witness: the boundary height 2.5 has selected the band 2.5-3.5.
C3_Witness ==
  /\ args.fn = "get_combustion_factor"
  /\ args.scorch_height = <<Num(5, 2)>>
  /\ "BROADLEA" \in DOMAIN C
  /\ C["BROADLEA"] = Num(45, 100)

\* C3, second case reached: no scorch height, the mean of the top two bands.
C3_MeanReached ==
  /\ args.fn = "get_combustion_factor"
  /\ args.scorch_height = NoneValue
  /\ "CONIFER" \in DOMAIN C
  /\ C["CONIFER"] = Num(90, 100)

RegionsOf(table) == {table[i].Region : i \in DOMAIN table}

\* C4: get_biomass returns exactly the row of a listed region, the 'Italia'
\* row when no region is given, and fails with RegionNotFoundError for a
\* region the table does not list.
C4_RegionResolution ==
  args.fn = "get_biomass" =>
    IF args.region = NoneValue
    THEN err = "" /\ Len(B) = 1 /\ B[1].Region = "Italia"
    ELSE IF args.region[1] \in RegionsOf(BiomassTable)
    THEN err = "" /\ Len(B) = 1 /\ B[1].Region = args.region[1]
    ELSE pc = "aborted" /\ err = "RegionNotFoundError"

\* Row i of the loaded table passes every non-None filter among the first n.
Passes(row, kwargs, n) ==
  \A j \in 1..n : kwargs[j].value = NoneValue \/ row[kwargs[j].column] = kwargs[j].value[1]

\* C5: get_effis_data raises the no-data error exactly when some non-None
\* filter, applied after the ones before it, leaves no row; otherwise it
\* returns, in file order, exactly the rows that satisfy every non-None
\* filter, so a None filter narrows nothing and a table that was narrowed
\* is never empty.
C5_EffisFiltering ==
  args.fn = "get_effis_data" =>
    LET t == LoadTable(file)
        kw == args.kwargs
        PassesAll(row) == Passes(row, kw, Len(kw))
        emptied == \E n \in DOMAIN kw :
                     /\ kw[n].value # NoneValue
                     /\ \A i \in DOMAIN t.rows : ~Passes(t.rows[i], kw, n)
    IN  /\ emptied <=> (pc = "aborted" /\ err = "ValueError:NoDataFound")
        /\ ~emptied =>
             /\ pc = "area" /\ err = ""
             /\ df.rows = SelectSeq(t.rows, PassesAll)
             /\ (\A j \in DOMAIN kw : kw[j].value = NoneValue) => df.rows = t.rows
             /\ (\E j \in DOMAIN kw : kw[j].value # NoneValue) => df.rows # <<>>

\* C5 witness: two filters, one of them None, kept one event of two.
C5_Witness ==
  /\ args.fn = "get_effis_data"
  /\ err = ""
  /\ Len(file) = 2 /\ Len(df.rows) = 1
  /\ args.kwargs[1].value = NoneValue
  /\ args.kwargs[2].value # NoneValue

\* C5, error case reached: the second filter emptied a table the first kept.
C5_RaiseReached ==
  /\ args.fn = "get_effis_data"
  /\ err = "ValueError:NoDataFound"
  /\ args.kwargs[1].value # NoneValue
  /\ \E i \in DOMAIN file : file[i]["FIREDATE"][1] = args.kwargs[1].value[1]

\* C6: get_combustion_factor fails with NoMatchingDataError when the inner
\* join on BOVIO_CLASS has no rows, and never returns an empty mapping.
C6_EmptyJoinRaises ==
  (args.fn = "get_combustion_factor"
     /\ Merged(args.tables.crosswalk, args.tables.damage) = {}) =>
    pc = "aborted" /\ err = "NoMatchingDataError"

\* C7: get_total_burnt_area fails when a selected event has a missing or
\* non-numeric percentage or area value; it never returns totals then.
C7_MissingValueRaises ==
  (args.fn = "get_total_burnt_area"
     /\ \E i \in DOMAIN df.rows : \E c \in Range(args.forest_types) \cup {"AREA_HA"} :
          df.rows[i][c].k # "num") =>
    pc = "aborted" /\ err # ""

\* C8: get_total_annual_GHG_emissions returns two values, the total and the
\* per-forest-type breakdown; breakdown[t] is the GWP-weighted sum of the
\* three gases for t and the total is the sum of the breakdown.
C8_ReturnsTotalAndBreakdown ==
  pc = "unpack" =>
    /\ Len(ret) = 2
    /\ DOMAIN ret[2] = Range(args.forest_types)
    /\ \A t \in DOMAIN ret[2] : ret[2][t] = TypeTotal(A, B, C, args.ef, t)
    /\ ret[1] = SumOverTypes(A, B, C, args.ef, Range(args.forest_types))

\* C9: a call of get_total_burnt_area leaves the table it is given as it
\* was: the same columns and the same values.
C9_InputTableUnchanged ==
  [][ pc = "area" => df' = df ]_vars

\* C10: the second of two runs of the pipeline on the same inputs ends as
\* the first did (same exception or same A, B, C and total), whether it
\* reads the event table afresh or reuses the table of the first run.
C10_SecondRunSameOutcome ==
  (run # "first" /\ RunEnded) => Outcome = first

\* C10 witness: a second run on the table the first run worked on has
\* returned a total over two forest types.
C10_Witness ==
  /\ run = "same"
  /\ pc = "unpack"
  /\ Cardinality(DOMAIN A) = 2
  /\ ret[1].n > 0

====
